---- MODULE Spec2Model ----
(***************************************************************************)
(* A model of crawl_iqair.py: the field validators, the pollutant          *)
(* normalizer, the DOM extractors, crawl_city_data, save_to_csv and the    *)
(* crawl_all_cities loop.                                                  *)
(*                                                                         *)
(* Text is a sequence of one-character strings, so that strip, lower, the  *)
(* regular expressions and the substring tests of the source are computed  *)
(* character by character.  Python's None is the value None below, which   *)
(* is no text (its only element is not a single character).  The degree    *)
(* sign is written "deg".                                                  *)
(***************************************************************************)
EXTENDS Integers, Sequences, FiniteSets, TLC

VARIABLES
    aqi_element,      \* validate_aqi: the element handed to the validator
    aqi_result,       \* validate_aqi: <<>> before the call, then <<returned value>>
    pollutant_page,   \* extract_pollutants: [blocks, query_fails] of the page
    pollutant_data,   \* extract_pollutants: <<>> before the call, then <<returned mapping>>
    page,             \* crawl_city_data: the page that was loaded
    record,           \* crawl_city_data: <<>> before the call, then <<returned value>>
    pc,               \* crawl_all_cities: position in the loop body
    idx,              \* crawl_all_cities: index in CITIES of the current city
    browser,          \* crawl_all_cities: the local variable `browser`
    open_browsers,    \* browsers launched and not yet closed
    launched,         \* the iterations that launched a browser
    close_log,        \* every browser.close() call: <<iteration, browser>>
    processed,        \* the cities whose iteration has begun, in order
    data,             \* crawl_all_cities: the local variable `data`
    outcome,          \* per iteration begun: how far it got
    results,          \* crawl_all_cities: the list `results`
    save_log,         \* every save_to_csv call: [path, ok]
    files,            \* the file system under result/: path -> rows
    clock,            \* the wall clock (Asia/Bangkok): [year, month]
    ticks             \* month boundaries crossed so far

vars == <<aqi_element, aqi_result, pollutant_page, pollutant_data, page, record,
          pc, idx, browser, open_browsers, launched, close_log, processed, data,
          outcome, results, save_log, files, clock, ticks>>

(***************************************************************************)
(* Text                                                                    *)
(***************************************************************************)
None == <<"None">>

Digits == <<"0", "1", "2", "3", "4", "5", "6", "7", "8", "9">>

Upper == <<"A", "B", "C", "D", "E", "F", "G", "H", "I", "J", "K", "L", "M",
           "N", "O", "P", "Q", "R", "S", "T", "U", "V", "W", "X", "Y", "Z">>

Lower == <<"a", "b", "c", "d", "e", "f", "g", "h", "i", "j", "k", "l", "m",
           "n", "o", "p", "q", "r", "s", "t", "u", "v", "w", "x", "y", "z">>

IsDigit(c) == \E i \in 1..Len(Digits) : Digits[i] = c

DigitVal(c) == (CHOOSE i \in 1..Len(Digits) : Digits[i] = c) - 1

IsSpace(c) == c \in {" ", "\t", "\n"}

\* str.lower() on one character
LowerChar(c) ==
    IF \E i \in 1..Len(Upper) : Upper[i] = c
    THEN Lower[CHOOSE i \in 1..Len(Upper) : Upper[i] = c]
    ELSE c

\* str.lower()
lower(s) == [i \in 1..Len(s) |-> LowerChar(s[i])]

\* str.strip()
strip(s) ==
    LET keep == {i \in 1..Len(s) : ~IsSpace(s[i])}
    IN  IF keep = {} THEN <<>>
        ELSE SubSeq(s, CHOOSE i \in keep : \A j \in keep : i <= j,
                       CHOOSE i \in keep : \A j \in keep : i >= j)

\* `sub in s`
Contains(s, sub) ==
    \E i \in 0..(Len(s) - Len(sub)) : SubSeq(s, i + 1, i + Len(sub)) = sub

\* Python truthiness of an Optional[str]
Truthy(s) == s /= None /\ s /= <<>>

\* int() of a string of decimal digits
RECURSIVE ToInt(_)
ToInt(s) ==
    IF s = <<>> THEN 0
    ELSE 10 * ToInt(SubSeq(s, 1, Len(s) - 1)) + DigitVal(s[Len(s)])

\* str() of a non-negative int
RECURSIVE NatToText(_)
NatToText(n) ==
    IF n < 10 THEN <<Digits[n + 1]>>
    ELSE Append(NatToText(n \div 10), Digits[(n % 10) + 1])

IsDigitChar(c) == IsDigit(c)

(***************************************************************************)
(* Field validators                                                        *)
(***************************************************************************)
AQI_MAX == 500

\* An element handle that query_selector did not find is NoElement (Python
\* None); a found one carries get_attribute("title") and text_content().
NoElement == [present |-> FALSE, title |-> None, text |-> <<>>]

Element(title, text) == [present |-> TRUE, title |-> title, text |-> text]

validate_aqi(aqi_element_) ==
    IF ~aqi_element_.present THEN None
    ELSE LET attr      == aqi_element_.title
             aqi_value == IF Truthy(attr) THEN attr ELSE strip(aqi_element_.text)
             digits    == SelectSeq(aqi_value, IsDigitChar)
         IN  IF digits /= <<>> /\ 0 <= ToInt(digits) /\ ToInt(digits) <= AQI_MAX
             THEN NatToText(ToInt(digits))
             ELSE None

\* Called with a str; crawl_city_data's first call hands it the Page object,
\* which is no str, and gets None.
validate_weather_condition(condition) ==
    IF Truthy(condition) THEN strip(condition) ELSE None

TempKeep(c) == IsDigit(c) \/ c = "." \/ c = "-"

IsDot(c) == c = "."

\* float(s) succeeds, for s made of digits, "." and "-"
IsFloatLiteral(s) ==
    LET body == IF s /= <<>> /\ s[1] = "-" THEN Tail(s) ELSE s
    IN  /\ \A i \in 1..Len(body) : IsDigit(body[i]) \/ body[i] = "."
        /\ \E i \in 1..Len(body) : IsDigit(body[i])
        /\ Len(SelectSeq(body, IsDot)) <= 1

RECURSIVE Pow10(_)
Pow10(n) == IF n = 0 THEN 1 ELSE 10 * Pow10(n - 1)

\* float(s) as the fraction num/den with its sign
FloatOf(s) ==
    LET neg  == s[1] = "-"
        body == IF neg THEN Tail(s) ELSE s
        dot  == IF \E i \in 1..Len(body) : body[i] = "."
                THEN CHOOSE i \in 1..Len(body) : body[i] = "."
                ELSE Len(body) + 1
        frac == SubSeq(body, dot + 1, Len(body))
        mag  == ToInt(SubSeq(body, 1, dot - 1) \o frac)
    IN  [neg |-> neg, num |-> IF neg THEN -mag ELSE mag, den |-> Pow10(Len(frac))]

\* f"{num/den:.1f}" for |num/den| <= 50; neg prints the sign of -0.0 too.
\* A tie is rounded to even, which is what the float does when the value is
\* exact in binary.
FormatOneDecimal(neg, num, den) ==
    LET mag    == IF num < 0 THEN -num ELSE num
        q      == (10 * mag) \div den
        r      == (10 * mag) % den
        tenths == IF 2 * r > den \/ (2 * r = den /\ q % 2 = 1) THEN q + 1 ELSE q
    IN  (IF neg THEN <<"-">> ELSE <<>>)
           \o NatToText(tenths \div 10) \o <<".", Digits[(tenths % 10) + 1]>>

validate_temperature(temp) ==
    IF ~Truthy(temp) THEN None
    ELSE LET kept == SelectSeq(temp, TempKeep)
         IN  IF ~IsFloatLiteral(kept) THEN None
             ELSE LET f    == FloatOf(kept)
                      fahr == f.num > 50 * f.den
                      num  == IF fahr THEN (f.num - 32 * f.den) * 5 ELSE f.num
                      den  == IF fahr THEN 9 * f.den ELSE f.den
                  IN  IF -50 * den <= num /\ num <= 50 * den
                      THEN FormatOneDecimal(f.neg, num, den) \o <<"deg", "C">>
                      ELSE None

(***************************************************************************)
(* normalize_pollutant_name                                                *)
(***************************************************************************)
K_pm25 == <<"p", "m", "2", "5">>
K_pm10 == <<"p", "m", "1", "0">>
K_co   == <<"c", "o">>
K_so2  == <<"s", "o", "2">>
K_no2  == <<"n", "o", "2">>
K_o3   == <<"o", "3">>

normalize_pollutant_name(name_in) ==
    LET name == lower(name_in)
    IN  IF Contains(name, <<"p", "m", "2", ".", "5">>) THEN K_pm25
        ELSE IF Contains(name, K_pm10) THEN K_pm10
        ELSE IF Contains(name, K_co) THEN K_co
        ELSE IF Contains(name, K_so2) THEN K_so2
        ELSE IF Contains(name, K_no2) THEN K_no2
        ELSE IF Contains(name, K_o3) THEN K_o3
        ELSE strip(name)

(***************************************************************************)
(* extract_pollutants                                                      *)
(***************************************************************************)
NA == <<"N", "/", "A">>

\* the list both fill loops iterate (lines 164 and 243)
POLLUTANTS == <<K_pm25, K_pm10, K_co, K_so2, K_no2, K_o3>>

\* A dict is a function from keys (texts) to values.
EmptyDict == [k \in {} |-> None]

Put(d, key, value) ==
    [k \in DOMAIN d \cup {key} |-> IF k = key THEN value ELSE d[k]]

PollutantKeep(c) == IsDigit(c) \/ c = "."

\* A .major-pollutant block: the text of its .sensor-name, span.font-bold,
\* first span and .sensor-unit children (None where the child is missing),
\* and whether a Playwright call on it raises.
Block(name, bold, span, unit, fault) ==
    [name |-> name, bold |-> bold, span |-> span, unit |-> unit, fault |-> fault]

\* the body of the inner try (lines 149-161) on one block
PollutantBlock(d, b) ==
    LET name_text     == IF b.name /= None THEN strip(b.name) ELSE None
        value_element == IF b.bold /= None THEN b.bold ELSE b.span
        value_text    == IF value_element /= None THEN strip(value_element) ELSE None
        unit_text     == IF b.unit /= None THEN strip(b.unit) ELSE None
        key           == normalize_pollutant_name(name_text)
        value         == SelectSeq(value_text, PollutantKeep)
    IN  IF Truthy(name_text) /\ Truthy(value_text) /\ value /= <<>>
        THEN Put(d, key, IF Truthy(unit_text) THEN value \o <<" ">> \o unit_text
                                              ELSE value)
        ELSE d

\* the for loop of lines 147-163: a block that raises is skipped
RECURSIVE ScanPollutants(_, _)
ScanPollutants(d, blocks) ==
    IF blocks = <<>> THEN d
    ELSE ScanPollutants(IF Head(blocks).fault THEN d
                        ELSE PollutantBlock(d, Head(blocks)),
                        Tail(blocks))

\* the loop with no inner try: the first block that raises ends the scan
RECURSIVE ScanUntilFault(_, _)
ScanUntilFault(d, blocks) ==
    IF blocks = <<>> \/ Head(blocks).fault THEN d
    ELSE ScanUntilFault(PollutantBlock(d, Head(blocks)), Tail(blocks))

\* for p in [...]: if p not in pollutant_data: pollutant_data[p] = "N/A"
RECURSIVE FillMissing(_, _)
FillMissing(d, keys) ==
    IF keys = <<>> THEN d
    ELSE FillMissing(IF Head(keys) \in DOMAIN d THEN d ELSE Put(d, Head(keys), NA),
                     Tail(keys))

\* extract_pollutants without the inner try/except: a raising block is caught
\* by the outer handler, which returns what was collected so far
extract_pollutants_no_isolation(blocks, query_fails) ==
    IF query_fails THEN EmptyDict
    ELSE IF \E i \in 1..Len(blocks) : blocks[i].fault
         THEN ScanUntilFault(EmptyDict, blocks)
         ELSE FillMissing(ScanPollutants(EmptyDict, blocks), POLLUTANTS)

\* query_fails: page.query_selector_all(".major-pollutant") raises, which the
\* outer handler catches before anything was collected
extract_pollutants(blocks, query_fails) ==
    IF query_fails THEN EmptyDict
    ELSE FillMissing(ScanPollutants(EmptyDict, blocks), POLLUTANTS)

(***************************************************************************)
(* extract_weather_components, extract_temperature                         *)
(***************************************************************************)
\* A .component block: whether it has an img child, the img's alt attribute
\* (None when it has none), the text of its span children, and whether a
\* Playwright call on it raises.
Component(img, alt, spans, fault) ==
    [img |-> img, alt |-> alt, spans |-> spans, fault |-> fault]

NoWeather == [humidity |-> None, wind_speed |-> None, uv_index |-> None]

\* the body of the inner try (lines 195-206); alt = None makes .strip() raise
WeatherComponent(wd, c) ==
    IF c.fault \/ ~c.img \/ c.alt = None \/ Len(c.spans) <= 1 THEN wd
    ELSE LET img_alt    == lower(strip(c.alt))
             value_text == strip(c.spans[2])
         IN  IF Contains(img_alt, <<"h", "u", "m", "i", "d", "i", "t", "y">>)
             THEN [wd EXCEPT !.humidity = value_text]
             ELSE IF Contains(img_alt, <<"w", "i", "n", "d", " ", "s", "p", "e", "e", "d">>)
             THEN [wd EXCEPT !.wind_speed = value_text]
             ELSE IF Contains(img_alt, <<"u", "v", " ", "i", "n", "d", "e", "x">>)
             THEN [wd EXCEPT !.uv_index = value_text]
             ELSE wd

RECURSIVE ScanComponents(_, _)
ScanComponents(wd, components) ==
    IF components = <<>> THEN wd
    ELSE ScanComponents(WeatherComponent(wd, Head(components)), Tail(components))

extract_weather_components(components, query_fails) ==
    IF query_fails THEN NoWeather ELSE ScanComponents(NoWeather, components)

\* the text of the two spans, None for a span that is not on the page
extract_temperature(temp_value_elem, temp_unit_elem) ==
    IF temp_value_elem /= None /\ temp_unit_elem /= None
    THEN strip(temp_value_elem) \o strip(temp_unit_elem)
    ELSE None

(***************************************************************************)
(* Time                                                                    *)
(***************************************************************************)
MonthAbbr == <<"jan", "feb", "mar", "apr", "may", "jun",
               "jul", "aug", "sep", "oct", "nov", "dec">>

NextMonth(t) ==
    IF t.month = 12 THEN [year |-> t.year + 1, month |-> 1]
    ELSE [year |-> t.year, month |-> t.month + 1]

\* datetime.isoformat(), cut after the month: "YYYY-MM"
isoformat(t) ==
    NatToText(t.year) \o <<"-">>
        \o (IF t.month < 10 THEN <<"0">> ELSE <<>>) \o NatToText(t.month)

(***************************************************************************)
(* crawl_city_data                                                         *)
(***************************************************************************)
K_timestamp         == <<"t", "i", "m", "e", "s", "t", "a", "m", "p">>
K_city              == <<"c", "i", "t", "y">>
K_aqi               == <<"a", "q", "i">>
K_weather_condition == <<"w", "e", "a", "t", "h", "e", "r", "_",
                         "c", "o", "n", "d", "i", "t", "i", "o", "n">>
K_wind_speed        == <<"w", "i", "n", "d", "_", "s", "p", "e", "e", "d">>
K_humidity          == <<"h", "u", "m", "i", "d", "i", "t", "y">>
K_temperature       == <<"t", "e", "m", "p", "e", "r", "a", "t", "u", "r", "e">>
K_uv_index          == <<"u", "v", "_", "i", "n", "d", "e", "x">>

\* the dict literal of lines 246-256: the eight fixed entries, then
\* **pollutant_data, whose entries win over a fixed entry of the same key
CityRecord(pg, city, now, pollutants) ==
    LET wc_elem           == pg.condition
        weather_condition == validate_weather_condition(
                                 IF wc_elem /= None THEN wc_elem ELSE <<>>)
        primary           == extract_temperature(pg.temp_value, pg.temp_unit)
        temperature       == IF Truthy(primary) THEN primary
                             ELSE validate_temperature(
                                 IF pg.temp_label /= None THEN pg.temp_label ELSE <<>>)
        weather_data      == extract_weather_components(pg.components,
                                                        pg.components_fail)
        fixed == (K_timestamp :> isoformat(now))
              @@ (K_city :> city.display_name)
              @@ (K_aqi :> validate_aqi(pg.aqi))
              @@ (K_weather_condition :> weather_condition)
              @@ (K_wind_speed :> weather_data.wind_speed)
              @@ (K_humidity :> weather_data.humidity)
              @@ (K_temperature :> temperature)
              @@ (K_uv_index :> weather_data.uv_index)
    IN  [k \in DOMAIN fixed \cup DOMAIN pollutants |->
            IF k \in DOMAIN pollutants THEN pollutants[k] ELSE fixed[k]]

\* crawl_city_data without its own fill loop (lines 243-245)
crawl_city_data_no_fill(pg, city, now) ==
    IF ~pg.nav_ok THEN None
    ELSE CityRecord(pg, city, now,
                    extract_pollutants(pg.pollutants, pg.pollutants_fail))

\* nav_ok FALSE: goto, wait_for_load_state or a query on the page raises
\* (a 30 s timeout among them); the handler of line 257 returns None
crawl_city_data(pg, city, now) ==
    IF ~pg.nav_ok THEN None
    ELSE CityRecord(pg, city, now,
                    FillMissing(extract_pollutants(pg.pollutants, pg.pollutants_fail),
                                POLLUTANTS))

(***************************************************************************)
(* save_to_csv                                                             *)
(***************************************************************************)
headers == <<K_timestamp, K_city, K_aqi, K_weather_condition, K_wind_speed,
             K_humidity, K_temperature, K_uv_index,
             K_pm25, K_pm10, K_o3, K_no2, K_so2, K_co>>

HeaderSet == {headers[i] : i \in 1..Len(headers)}

\* result/<city_name>/aqi_<city_name>_<year>_<mon>.csv
filepath(city_name, now) ==
    [city |-> city_name, year |-> now.year, mon |-> MonthAbbr[now.month]]

\* DictWriter's row for a dict with no key outside fieldnames: a missing key
\* and a None value are both written as the empty field
CsvRow(d) ==
    [i \in 1..Len(headers) |->
        IF headers[i] \in DOMAIN d /\ d[headers[i]] /= None
        THEN d[headers[i]] ELSE <<>>]

\* io = "open": mkdir or open raises OSError and nothing is written.
\* A key outside fieldnames makes writerow raise ValueError, after
\* writeheader has written the header of a new file.
\* Returns the file system after the call and whether the call returned.
save_to_csv(fs, d, city_name, now, io) ==
    LET path        == filepath(city_name, now)
        file_exists == path \in DOMAIN fs
        before      == IF file_exists THEN fs[path] ELSE <<>>
        opened      == IF file_exists THEN before ELSE Append(before, headers)
        fits        == DOMAIN d \subseteq HeaderSet
        after       == IF fits THEN Append(opened, CsvRow(d)) ELSE opened
    IN  IF io = "open" THEN [fs |-> fs, ok |-> FALSE, path |-> path]
        ELSE [fs   |-> [p \in DOMAIN fs \cup {path} |->
                           IF p = path THEN after ELSE fs[p]],
              ok   |-> fits,
              path |-> path]

(***************************************************************************)
(* CITIES (the slug, the display name in ASCII, the URL)                   *)
(***************************************************************************)
City(name, display_name, url) ==
    [name |-> name, display_name |-> display_name, url |-> url]

CITIES ==
    << City("hanoi", <<"H", "a", " ", "N", "o", "i">>, "https://www.aqi.in/dashboard/vietnam/ha-noi"),
       City("ho-chi-minh-city", <<"H", "o", " ", "C", "h", "i", " ", "M", "i", "n", "h">>,
            "https://www.aqi.in/dashboard/vietnam/ho-chi-minh"),
       City("da-nang", <<"D", "a", " ", "N", "a", "n", "g">>, "https://www.aqi.in/vi/dashboard/vietnam/da-nang"),
       City("hai-phong", <<"H", "a", "i", " ", "P", "h", "o", "n", "g">>,
            "https://www.aqi.in/vi/dashboard/vietnam/hai-phong"),
       City("nghe-an", <<"N", "g", "h", "e", " ", "A", "n">>, "https://www.aqi.in/vi/dashboard/vietnam/nghe-an"),
       City("son-la", <<"S", "o", "n", " ", "L", "a">>, "https://www.aqi.in/vi/dashboard/vietnam/son-la"),
       City("bac-ninh", <<"B", "a", "c", " ", "N", "i", "n", "h">>,
            "https://www.aqi.in/vi/dashboard/vietnam/bac-ninh") >>

(***************************************************************************)
(* Bounds and inputs                                                       *)
(***************************************************************************)
\* crawl_all_cities is run over the first NumCities cities of CITIES
NumCities == 3

\* month boundaries the clock may cross during a run
MaxTicks == 1

\* save_to_csv calls in a sequence of calls
MaxCalls == 3

\* the run starts in December of this year
StartYear == 2024

Cities == SubSeq(CITIES, 1, NumCities)

StartClock == [year |-> StartYear, month |-> 12]

\* texts an AQI element may carry
AqiTexts ==
    { <<"4", "2">>,
      <<" ", "4", "2", " ">>,
      <<"5", "0", "1">>,
      <<"-", "1">>,
      <<"a", "b", "c">>,
      <<>>,
      <<"0">>,
      <<"5", "0", "0">>,
      <<"0", "0", "7">>,
      <<"A", "Q", "I", " ", "5", "7">>,
      <<"1", "0", "0", "0">> }

AqiElements ==
    {NoElement} \cup {Element(a, x) : a \in {None} \cup AqiTexts, x \in AqiTexts}

\* the pollutant blocks a page is made of: one per canonical pollutant, a
\* pollutant the normalizer does not know, and a second PM2.5 reading
MasterBlocks ==
    << Block(<<"P", "M", "2", ".", "5">>, <<"3", "5", ".", "2">>, None, <<"u", "g", "/", "m", "3">>, FALSE),
       Block(<<"P", "M", "1", "0">>, None, <<" ", "4", "8", " ">>, <<"u", "g", "/", "m", "3">>, FALSE),
       Block(<<"C", "O">>, <<"4", "1", "2">>, None, <<"p", "p", "b">>, FALSE),
       Block(<<"S", "O", "2">>, <<"3">>, None, None, FALSE),
       Block(<<"N", "O", "2">>, <<"1", "7">>, None, <<"p", "p", "b">>, FALSE),
       Block(<<"O", "3">>, <<"2", "1">>, <<"x">>, <<"p", "p", "b">>, FALSE),
       Block(<<"R", "a", "d", "o", "n">>, <<"5">>, None, None, FALSE),
       Block(<<"P", "M", "2", ".", "5", " ", "(", "1", "h", ")">>, <<"4", "0">>, None, <<"u", "g", "/", "m", "3">>, FALSE) >>

\* The page that shows the blocks of MasterBlocks chosen by f (i is shown when
\* f[i] /= "absent", and raises when f[i] = "fault"), in the order of
\* MasterBlocks or in the reverse order.
RECURSIVE PickBlocks(_, _)
PickBlocks(f, i) ==
    IF i = 0 THEN <<>>
    ELSE IF f[i] = "absent" THEN PickBlocks(f, i - 1)
    ELSE Append(PickBlocks(f, i - 1),
                [MasterBlocks[i] EXCEPT !.fault = (f[i] = "fault")])

Reverse(q) == [i \in 1..Len(q) |-> q[Len(q) + 1 - i]]

PollutantPages ==
    LET pick == [1..Len(MasterBlocks) -> {"absent", "ok", "fault"}]
    IN  {PickBlocks(f, Len(MasterBlocks)) : f \in pick}
            \cup {Reverse(PickBlocks(f, Len(MasterBlocks))) : f \in pick}

Shown(present) ==
    PickBlocks([i \in 1..Len(MasterBlocks) |->
                   IF i \in present THEN "ok" ELSE "absent"], Len(MasterBlocks))

SixBlocks == Shown(1..6)

\* the parts of a page crawl_city_data reads
AqiParts == {NoElement, Element(None, <<"4", "2">>), Element(<<"5", "7">>, <<" ", "9", "9", "9", " ">>)}

ConditionParts == {None, <<" ", " ", "M", "i", "s", "t", " ">>, <<" ", " ">>}

\* <<span.text-[2.5rem], span.text-[1.7rem]>>
TemperatureParts == {<<None, None>>, <<<<"3", "1">>, <<"deg", "C">>>>, <<<<"h", "o", "t">>, None>>}

LabelParts == {None, <<"9", "8", ".", "6">>, <<"-", "4", ".", "5", " ", "deg", "C">>, <<"2", "0", "0">>}

ComponentParts ==
    { <<>>,
      << Component(TRUE, <<"H", "u", "m", "i", "d", "i", "t", "y", " ", "i", "c", "o", "n">>, <<<<"H", "u", "m", "i", "d", "i", "t", "y">>, <<"6", "5", "%">>>>, FALSE),
         Component(TRUE, <<"W", "i", "n", "d", " ", "S", "p", "e", "e", "d">>, <<<<"W", "i", "n", "d">>, <<"1", "2", " ", "k", "m", "/", "h">>>>, FALSE),
         Component(TRUE, <<"U", "V", " ", "I", "n", "d", "e", "x">>, <<<<"U", "V">>, <<"3">>>>, FALSE) >>,
      << Component(TRUE, <<"h", "u", "m", "i", "d", "i", "t", "y">>, <<<<"H", "u", "m", "i", "d", "i", "t", "y">>, <<"a", "b", "c">>>>, FALSE),
         Component(TRUE, <<"w", "i", "n", "d", " ", "s", "p", "e", "e", "d">>, <<<<"W", "i", "n", "d">>, <<"f", "a", "s", "t">>>>, FALSE),
         Component(TRUE, <<"u", "v", " ", "i", "n", "d", "e", "x">>, <<<<"U", "V">>, <<"9", "9">>>>, FALSE) >>,
      << Component(TRUE, None, <<<<"x">>, <<"1">>>>, FALSE),
         Component(TRUE, <<"P", "r", "e", "s", "s", "u", "r", "e">>, <<<<"P">>, <<"1", "0", "0", "9">>>>, FALSE),
         Component(TRUE, <<"h", "u", "m", "i", "d", "i", "t", "y">>, <<<<"o", "n", "l", "y">>>>, FALSE),
         Component(TRUE, <<"u", "v", " ", "i", "n", "d", "e", "x">>, <<<<"U", "V">>, <<"7">>>>, TRUE),
         Component(FALSE, <<"w", "i", "n", "d", " ", "s", "p", "e", "e", "d">>, <<<<"w">>, <<"9", " ", "m", "p", "h">>>>, FALSE) >> }

PollutantParts == {<<>>, SixBlocks, Shown(1..7)}

Page(nav_ok, aqi, condition, temp, temp_label, components, components_fail, pollutants, pollutants_fail) ==
    [nav_ok |-> nav_ok, aqi |-> aqi, condition |-> condition,
     temp_value |-> temp[1], temp_unit |-> temp[2], temp_label |-> temp_label,
     components |-> components, components_fail |-> components_fail,
     pollutants |-> pollutants, pollutants_fail |-> pollutants_fail]

Pages ==
    {Page(n, a, c, t, l, w, wf, p, pf) :
        n \in BOOLEAN, a \in AqiParts, c \in ConditionParts, t \in TemperatureParts,
        l \in LabelParts, w \in ComponentParts, wf \in BOOLEAN,
        p \in PollutantParts, pf \in BOOLEAN}

\* the pages the site serves during a run: the usual dashboard, a dashboard
\* with a pollutant the normalizer does not know, and one that never loads
GoodPage ==
    Page(TRUE, Element(None, <<"4", "2">>), <<"M", "i", "s", "t">>, <<<<"3", "1">>, <<"deg", "C">>>>, None,
         << Component(TRUE, <<"H", "u", "m", "i", "d", "i", "t", "y", " ", "i", "c", "o", "n">>, <<<<"H", "u", "m", "i", "d", "i", "t", "y">>, <<"6", "5", "%">>>>, FALSE),
            Component(TRUE, <<"W", "i", "n", "d", " ", "S", "p", "e", "e", "d">>, <<<<"W", "i", "n", "d">>, <<"1", "2", " ", "k", "m", "/", "h">>>>, FALSE),
            Component(TRUE, <<"U", "V", " ", "I", "n", "d", "e", "x">>, <<<<"U", "V">>, <<"3">>>>, FALSE) >>, FALSE, SixBlocks, FALSE)

RadonPage == [GoodPage EXCEPT !.pollutants = Shown(1..7)]

TimeoutPage == [GoodPage EXCEPT !.nav_ok = FALSE]

SitePages == {GoodPage, RadonPage, TimeoutPage}

BlankPage == Page(FALSE, NoElement, None, <<None, None>>, None, <<>>, FALSE, <<>>, FALSE)

(***************************************************************************)
(* The state each specification leaves alone                               *)
(***************************************************************************)
aqi_vars == <<aqi_element, aqi_result>>
poll_vars == <<pollutant_page, pollutant_data>>
crawl_vars == <<page, record>>
run_vars == <<pc, idx, browser, open_browsers, launched, close_log, processed,
              data, outcome, results>>
fs_vars == <<save_log, files, clock, ticks>>

\* the local variable `browser` before its first assignment
Unbound == 0

EmptyFs == [p \in {} |-> <<>>]

AqiIdle == aqi_element = NoElement /\ aqi_result = <<>>
NoPollutantPage == [blocks |-> <<>>, query_fails |-> FALSE]

PollIdle == pollutant_page = NoPollutantPage /\ pollutant_data = <<>>
CrawlIdle == page = BlankPage /\ record = <<>>
RunIdle ==
    /\ pc = "idle" /\ idx = 0 /\ browser = Unbound /\ open_browsers = {}
    /\ launched = {} /\ close_log = <<>> /\ processed = <<>> /\ data = None
    /\ outcome = <<>> /\ results = <<>>
FsIdle == save_log = <<>> /\ files = EmptyFs /\ clock = StartClock /\ ticks = 0

(***************************************************************************)
(* SpecAqi: validate_aqi on every element of AqiElements                   *)
(***************************************************************************)
InitAqi ==
    /\ aqi_element \in AqiElements /\ aqi_result = <<>>
    /\ PollIdle /\ CrawlIdle /\ RunIdle /\ FsIdle

ValidateAqi ==
    /\ aqi_result = <<>>
    /\ aqi_result' = <<validate_aqi(aqi_element)>>
    /\ UNCHANGED <<aqi_element, poll_vars, crawl_vars, run_vars, fs_vars>>

SpecAqi == InitAqi /\ [][ValidateAqi]_vars

(***************************************************************************)
(* SpecPollutants: extract_pollutants on every page of PollutantPages      *)
(***************************************************************************)
InitPollutants ==
    /\ pollutant_page \in [blocks : PollutantPages, query_fails : BOOLEAN]
    /\ pollutant_data = <<>>
    /\ AqiIdle /\ CrawlIdle /\ RunIdle /\ FsIdle

ExtractPollutants ==
    /\ pollutant_data = <<>>
    /\ pollutant_data' = <<extract_pollutants(pollutant_page.blocks,
                                               pollutant_page.query_fails)>>
    /\ UNCHANGED <<pollutant_page, aqi_vars, crawl_vars, run_vars, fs_vars>>

SpecPollutants == InitPollutants /\ [][ExtractPollutants]_vars

(***************************************************************************)
(* SpecCrawl: crawl_city_data on every page of Pages                       *)
(***************************************************************************)
InitCrawl ==
    /\ page \in Pages /\ record = <<>>
    /\ AqiIdle /\ PollIdle /\ RunIdle /\ FsIdle

CrawlCityData ==
    /\ record = <<>>
    /\ \E i \in 1..Len(Cities) :
          record' = <<crawl_city_data(page, Cities[i], clock)>>
    /\ UNCHANGED <<page, aqi_vars, poll_vars, run_vars, fs_vars>>

SpecCrawl == InitCrawl /\ [][CrawlCityData]_vars

(***************************************************************************)
(* SpecCsv: sequences of save_to_csv calls on the records the crawler      *)
(* returns, the clock running                                              *)
(***************************************************************************)
InitCsv ==
    /\ save_log = <<>> /\ files = EmptyFs /\ clock = StartClock /\ ticks = 0
    /\ AqiIdle /\ PollIdle /\ CrawlIdle /\ RunIdle

\* one month boundary passes
Tick ==
    /\ ticks < MaxTicks
    /\ pc /= "done"
    /\ clock' = NextMonth(clock)
    /\ ticks' = ticks + 1
    /\ UNCHANGED <<save_log, files, aqi_vars, poll_vars, crawl_vars, run_vars>>

\* save_to_csv(d, city) where d was returned by crawl_city_data at this time
\* of the clock
SaveCall ==
    /\ Len(save_log) < MaxCalls
    /\ \E i \in 1..Len(Cities), pg \in SitePages :
          LET d == crawl_city_data(pg, Cities[i], clock)
              r == save_to_csv(files, d, Cities[i].name, clock, "ok")
          IN  /\ d /= None
              /\ files' = r.fs
              /\ save_log' = Append(save_log, [path |-> r.path, ok |-> r.ok])
    /\ UNCHANGED <<clock, ticks, aqi_vars, poll_vars, crawl_vars, run_vars>>

SpecCsv == InitCsv /\ [][SaveCall \/ Tick]_vars

(***************************************************************************)
(* Spec: crawl_all_cities                                                  *)
(***************************************************************************)
Init ==
    /\ pc = "for" /\ idx = 0 /\ browser = Unbound /\ open_browsers = {}
    /\ launched = {} /\ close_log = <<>> /\ processed = <<>> /\ data = None
    /\ outcome = <<>> /\ results = <<>>
    /\ FsIdle /\ AqiIdle /\ PollIdle /\ CrawlIdle

Went(to, how) ==
    /\ pc' = to
    /\ outcome' = [outcome EXCEPT ![idx] = how]

\* for city in CITIES: the next city
NextCity ==
    /\ pc = "for" /\ idx < Len(Cities)
    /\ idx' = idx + 1
    /\ processed' = Append(processed, Cities[idx + 1].name)
    /\ outcome' = Append(outcome, "begun")
    /\ pc' = "playwright"
    /\ UNCHANGED <<browser, open_browsers, launched, close_log, data, results,
                   fs_vars, aqi_vars, poll_vars, crawl_vars>>

\* the list is exhausted: return results
Return ==
    /\ pc = "for" /\ idx = Len(Cities)
    /\ pc' = "done"
    /\ UNCHANGED <<idx, browser, open_browsers, launched, close_log, processed,
                   data, outcome, results, fs_vars, aqi_vars, poll_vars, crawl_vars>>

\* the outer handler ends the run instead of continuing
StartPlaywrightOrAbort ==
    /\ pc = "playwright"
    /\ \E ok \in BOOLEAN :
          IF ok THEN Went("launch", "playwright") ELSE Went("done", "no_playwright")
    /\ UNCHANGED <<idx, browser, open_browsers, launched, close_log, processed,
                   data, results, fs_vars, aqi_vars, poll_vars, crawl_vars>>

\* with sync_playwright() as p: entered, or it raises and the outer handler
\* (line 301) continues with the next city
StartPlaywright ==
    /\ pc = "playwright"
    /\ \E ok \in BOOLEAN :
          IF ok THEN Went("launch", "playwright") ELSE Went("for", "no_playwright")
    /\ UNCHANGED <<idx, browser, open_browsers, launched, close_log, processed,
                   data, results, fs_vars, aqi_vars, poll_vars, crawl_vars>>

\* browser = p.chromium.launch(headless=True)
Launch ==
    /\ pc = "launch"
    /\ \E ok \in BOOLEAN :
          IF ok
          THEN /\ browser' = idx
               /\ open_browsers' = open_browsers \cup {idx}
               /\ launched' = launched \cup {idx}
               /\ Went("page", "browser")
          ELSE /\ UNCHANGED <<browser, open_browsers, launched>>
               /\ Went("except", "no_browser")
    /\ UNCHANGED <<idx, close_log, processed, data, results,
                   fs_vars, aqi_vars, poll_vars, crawl_vars>>

\* page = browser.new_page(); set_viewport_size; set_default_timeout
NewPage ==
    /\ pc = "page"
    /\ \E ok \in BOOLEAN :
          IF ok THEN Went("crawl", "page") ELSE Went("except", "no_page")
    /\ UNCHANGED <<idx, browser, open_browsers, launched, close_log, processed,
                   data, results, fs_vars, aqi_vars, poll_vars, crawl_vars>>

\* data = crawl_city_data(page, city); if data: results.append(data)
Crawl ==
    /\ pc = "crawl"
    /\ \E pg \in SitePages :
          LET d == crawl_city_data(pg, Cities[idx], clock)
          IN  /\ data' = d
              /\ IF d /= None
                 THEN results' = Append(results, d) /\ Went("save", "record")
                 ELSE UNCHANGED results /\ Went("finally", "no_record")
    /\ UNCHANGED <<idx, browser, open_browsers, launched, close_log, processed,
                   fs_vars, aqi_vars, poll_vars, crawl_vars>>

\* csv_file = save_to_csv(data, city['name'])
Save ==
    /\ pc = "save"
    /\ \E io \in {"ok", "open"} :
          LET r == save_to_csv(files, data, Cities[idx].name, clock, io)
          IN  /\ files' = r.fs
              /\ save_log' = Append(save_log, [path |-> r.path, ok |-> r.ok])
              /\ pc' = IF r.ok THEN "finally" ELSE "except"
    /\ UNCHANGED <<idx, browser, open_browsers, launched, close_log, processed,
                   data, outcome, results, clock, ticks,
                   aqi_vars, poll_vars, crawl_vars>>

\* except Exception as e: print(...); continue, which leaves the inner try
\* with no cleanup run
ExceptWithoutFinally ==
    /\ pc = "except"
    /\ pc' = "exit"
    /\ UNCHANGED <<idx, browser, open_browsers, launched, close_log, processed,
                   data, outcome, results, fs_vars, aqi_vars, poll_vars, crawl_vars>>

\* except Exception as e: print(...); continue, which runs the finally clause
Except ==
    /\ pc = "except"
    /\ pc' = "finally"
    /\ UNCHANGED <<idx, browser, open_browsers, launched, close_log, processed,
                   data, outcome, results, fs_vars, aqi_vars, poll_vars, crawl_vars>>

\* finally: if 'browser' in locals(): browser.close()
\* `browser` is a local of crawl_all_cities: once bound it stays bound in
\* every later iteration.  Whether close() returns or raises, the with
\* statement is left next.
Finally ==
    /\ pc = "finally"
    /\ IF browser /= Unbound
       THEN /\ close_log' = Append(close_log, [iteration |-> idx, browser |-> browser])
            /\ open_browsers' = open_browsers \ {browser}
       ELSE UNCHANGED <<close_log, open_browsers>>
    /\ pc' = "exit"
    /\ UNCHANGED <<idx, browser, launched, processed, data, outcome, results,
                   fs_vars, aqi_vars, poll_vars, crawl_vars>>

\* the with statement's __exit__; an exception still in flight reaches the
\* outer handler (line 301), which continues with the next city
ExitPlaywright ==
    /\ pc = "exit"
    /\ pc' = "for"
    /\ UNCHANGED <<idx, browser, open_browsers, launched, close_log, processed,
                   data, outcome, results, fs_vars, aqi_vars, poll_vars, crawl_vars>>

Next ==
    \/ NextCity \/ Return \/ StartPlaywright \/ Launch \/ NewPage \/ Crawl
    \/ Save \/ Except \/ Finally \/ ExitPlaywright \/ Tick

Spec == Init /\ [][Next]_vars

(***************************************************************************)
(* The claims                                                              *)
(***************************************************************************)

KMH == <<"k", "m", "/", "h">>

LBL_PM25 == <<"P", "M", "2", ".", "5">>
LBL_PM10 == <<"P", "M", "1", "0">>
LBL_CO == <<"C", "O">>
LBL_SO2 == <<"S", "O", "2">>
LBL_NO2 == <<"N", "O", "2">>
LBL_O3 == <<"O", "3">>

VAL_PM25 == <<"3", "5", ".", "2", " ", "u", "g", "/", "m", "3">>
VAL_PM10 == <<"4", "8", " ", "u", "g", "/", "m", "3">>
VAL_CO == <<"4", "1", "2", " ", "p", "p", "b">>
VAL_SO2 == <<"3">>
VAL_NO2 == <<"1", "7", " ", "p", "p", "b">>
VAL_O3 == <<"2", "1", " ", "p", "p", "b">>


\* C1: every record crawl_city_data returns has all 14 header keys, whatever
\* the extractors found, also when extract_pollutants returned an empty mapping.
C1_AllHeaderKeys ==
    (record /= <<>> /\ record[1] /= None) => HeaderSet \subseteq DOMAIN record[1]

\* a record was returned although the pollutant query raised
C1_Witness ==
    record /= <<>> /\ record[1] /= None /\ page.pollutants_fail

CallsFor(path) == {j \in 1..Len(save_log) : save_log[j].path = path}

\* C2: after n >= 1 save_to_csv calls for one city in one month, the file not
\* existing before, the file is one header row followed by exactly n data rows.
C2_HeaderThenNRows ==
    \A path \in {save_log[j].path : j \in 1..Len(save_log)} :
        /\ path \in DOMAIN files
        /\ Len(files[path]) = 1 + Cardinality(CallsFor(path))
        /\ files[path][1] = headers
        /\ \A k \in 2..Len(files[path]) : files[path][k] /= headers

\* C3: the cities are processed once each, in the order of CITIES, and the run
\* ends only after the last one; a city whose page failed to load has no
\* record in results and no file, and results holds exactly the records
\* crawl_city_data returned.
C3_EveryCityProcessed ==
    /\ processed = [i \in 1..idx |-> Cities[i].name]
    /\ Len(outcome) = idx
    /\ pc = "done" => idx = Len(Cities)
    /\ Len(results) = Cardinality({i \in 1..Len(outcome) : outcome[i] = "record"})
    /\ \A i \in 1..Len(outcome) :
          outcome[i] = "no_record" =>
             /\ \A j \in 1..Len(results) :
                   results[j] /= None
                   /\ results[j][K_city] /= Cities[i].display_name
             /\ \A path \in DOMAIN files : path.city /= Cities[i].name

\* the run has ended, a city's page failed to load and a later city was crawled
C3_Witness ==
    /\ pc = "done"
    /\ \E i \in 1..Len(outcome) : \E k \in 1..Len(outcome) :
          i < k /\ outcome[i] = "no_record" /\ outcome[k] = "record"

\* C4: a browser launched for a city is closed before the next city begins,
\* whatever happened in between, and no two browsers are open at once.
C4_BrowserClosedBeforeNextCity ==
    /\ open_browsers \subseteq {idx}
    /\ Cardinality(open_browsers) <= 1
    /\ pc \in {"for", "playwright", "done"} => open_browsers = {}

\* an iteration launched its browser, raised, and the loop is back at its head
C4_Witness ==
    /\ pc = "for" /\ idx \in launched
    /\ outcome[idx] = "no_page"
    /\ open_browsers = {}

StampYear(row) == ToInt(SubSeq(row[1], 1, 4))

StampMonth(row) == ToInt(SubSeq(row[1], 6, 7))

\* C5: the year and month in the name of the file a record was appended to
\* are the year and month of the record's timestamp.
C5_FileNamedAfterRecordStamp ==
    \A path \in DOMAIN files :
        \A k \in 2..Len(files[path]) :
            /\ path.year = StampYear(files[path][k])
            /\ path.mon = MonthAbbr[StampMonth(files[path][k])]

SignedKeep(c) == IsDigit(c) \/ c = "-"

\* the text validate_aqi is to validate: the title when there is one
AqiRaw(el) == IF Truthy(el.title) THEN el.title ELSE el.text

\* the number a raw text denotes: its digits, negative under a minus sign
HasNumber(raw) ==
    LET kept == SelectSeq(raw, SignedKeep)
        body == IF kept /= <<>> /\ kept[1] = "-" THEN Tail(kept) ELSE kept
    IN  body /= <<>> /\ \A i \in 1..Len(body) : IsDigit(body[i])

NumberOf(raw) ==
    LET kept == SelectSeq(raw, SignedKeep)
    IN  IF kept[1] = "-" THEN -ToInt(Tail(kept)) ELSE ToInt(kept)

\* C6: validate_aqi accepts a raw input iff its numeric value is in [0,500],
\* returning it as a decimal string, and rejects every other input ("501",
\* "-1", "abc") with None; the title is the text validated when there is one.
C6_AcceptsIffInRange ==
    (aqi_result /= <<>> /\ aqi_element.present) =>
        LET raw == AqiRaw(aqi_element)
        IN  IF HasNumber(raw) /\ 0 <= NumberOf(raw) /\ NumberOf(raw) <= 500
            THEN aqi_result[1] = NatToText(NumberOf(raw))
            ELSE aqi_result[1] = None

\* digits, or digits "." digits
IsNumberText(s) ==
    /\ s /= <<>>
    /\ \A i \in 1..Len(s) : IsDigit(s[i]) \/ s[i] = "."
    /\ Len(SelectSeq(s, IsDot)) <= 1
    /\ IsDigit(s[1]) /\ IsDigit(s[Len(s)])

\* '<number> km/h'
IsWindSpeedForm(s) ==
    /\ Len(s) > 4
    /\ SubSeq(s, Len(s) - 3, Len(s)) = KMH
    /\ ~IsSpace(s[1])
    /\ IsNumberText(strip(SubSeq(s, 1, Len(s) - 4)))

\* '<1-3 digits>%'
IsHumidityForm(s) ==
    /\ Len(s) \in 2..4
    /\ s[Len(s)] = "%"
    /\ \A i \in 1..(Len(s) - 1) : IsDigit(s[i])

\* an integer in [0,11]
IsUvIndexForm(s) == \E n \in 0..11 : s = NatToText(n)

\* a one-decimal value in [-50,50] followed by the degree sign and C
IsTemperatureForm(s) ==
    /\ Len(s) > 4
    /\ SubSeq(s, Len(s) - 1, Len(s)) = <<"deg", "C">>
    /\ LET num  == SubSeq(s, 1, Len(s) - 2)
           body == IF num[1] = "-" THEN Tail(num) ELSE num
       IN  /\ Len(body) > 2
           /\ body[Len(body) - 1] = "."
           /\ \A i \in (1..Len(body)) \ {Len(body) - 1} : IsDigit(body[i])
           /\ ToInt(SubSeq(body, 1, Len(body) - 2)) * 10
                 + DigitVal(body[Len(body)]) <= 500

\* C7: in every record returned, wind_speed, humidity, uv_index and
\* temperature are each None or a value in the form its validator returns.
C7_WeatherFieldsValidated ==
    (record /= <<>> /\ record[1] /= None) =>
        LET r == record[1]
        IN  /\ r[K_wind_speed] = None \/ IsWindSpeedForm(r[K_wind_speed])
            /\ r[K_humidity] = None \/ IsHumidityForm(r[K_humidity])
            /\ r[K_uv_index] = None \/ IsUvIndexForm(r[K_uv_index])
            /\ r[K_temperature] = None \/ IsTemperatureForm(r[K_temperature])

\* the dashboard's label of each canonical pollutant, and the value its block
\* of MasterBlocks shows
CanonicalLabels ==
    (LBL_PM25 :> K_pm25) @@ (LBL_PM10 :> K_pm10) @@ (LBL_CO :> K_co)
        @@ (LBL_SO2 :> K_so2) @@ (LBL_NO2 :> K_no2) @@ (LBL_O3 :> K_o3)

ShownValue ==
    (K_pm25 :> VAL_PM25) @@ (K_pm10 :> VAL_PM10) @@ (K_co :> VAL_CO)
        @@ (K_so2 :> VAL_SO2) @@ (K_no2 :> VAL_NO2) @@ (K_o3 :> VAL_O3)

OneBlockPerPollutant(blocks) ==
    /\ Len(blocks) = 6
    /\ \A i \in 1..6 : blocks[i].name \in DOMAIN CanonicalLabels
    /\ \A i \in 1..6 : \A j \in 1..6 : blocks[i].name = blocks[j].name => i = j

ExactlyOneFault(blocks) ==
    Cardinality({i \in 1..Len(blocks) : blocks[i].fault}) = 1

\* C8: on a page with one block per canonical pollutant of which exactly one
\* raises, the other five keys carry the values of their own blocks and the
\* key of the block that raised carries "N/A".
C8_FaultIsolated ==
    LET blocks == pollutant_page.blocks
    IN  (/\ pollutant_data /= <<>>
         /\ ~pollutant_page.query_fails
         /\ OneBlockPerPollutant(blocks)
         /\ ExactlyOneFault(blocks)) =>
            \A i \in 1..6 :
                LET key == CanonicalLabels[blocks[i].name]
                IN  /\ key \in DOMAIN pollutant_data[1]
                    /\ pollutant_data[1][key] =
                          IF blocks[i].fault THEN NA ELSE ShownValue[key]

\* such a page was scanned, and the block that raised was not the last one
C8_Witness ==
    /\ pollutant_data /= <<>>
    /\ ~pollutant_page.query_fails
    /\ OneBlockPerPollutant(pollutant_page.blocks)
    /\ ExactlyOneFault(pollutant_page.blocks)
    /\ ~pollutant_page.blocks[6].fault

\* C9: at the end of a run every record of results is a data row of a file of
\* its city.
C9_ResultsAreSaved ==
    pc = "done" =>
        \A j \in 1..Len(results) :
            \E path \in DOMAIN files :
                \E k \in 2..Len(files[path]) :
                    files[path][k] = CsvRow(results[j])

\* C10: close is called only on the browser launched in the same iteration,
\* and on no browser twice.
C10_ClosesOnlyOwnBrowser ==
    /\ \A j \in 1..Len(close_log) : close_log[j].browser = close_log[j].iteration
    /\ \A j \in 1..Len(close_log) : \A k \in 1..Len(close_log) :
          close_log[j].browser = close_log[k].browser => j = k

====
